---- MODULE Spec2Model ----
(***************************************************************************)
(* gostructui: a struct's fields exposed as a navigable terminal menu.     *)
(* The model follows menu.go: InitialTModelStructMenu builds the menu from *)
(* a caller's struct by reflection, Update consumes one key event, View    *)
(* renders, and ParseStruct writes the menu values back into the struct.   *)
(* The caller and host loop follow example/main.go (tea.Program.Run, then  *)
(* ParseStruct unless QuitWithCancel).                                     *)
(*                                                                         *)
(* Go strings are sequences of one-character strings; a Go value stored in *)
(* an `any` is a record tagged with its dynamic type T; `int` is the       *)
(* 32-bit int of a 32-bit GOARCH (TLC's own integer range).                *)
(***************************************************************************)
EXTENDS Integers, Sequences, FiniteSets, TLC

VARIABLES
    structObj,       \* what the caller passes: "value", "ptrNonStruct", "ptrStruct"
    decl,            \* the struct type: sequence of field declarations
    record,          \* the caller's struct: one Go value per declared field
    record0,         \* the struct as it was before the menu was built
    fieldList,       \* argument fieldList
    asBlacklist,     \* argument asBlacklist
    customSettings,  \* argument customSettings: nil or a MenuSettings
    m,               \* the TModelStructMenu the host loop holds
    receiver,        \* the model Update was last called on, as it reads after
                     \* the call; the host loop drops it when it renders
    err,             \* error returned by InitialTModelStructMenu
    msg,             \* the message Update was last called with, until rendered
    cmd,             \* tea.Cmd returned by the last Update: "nil" or "Quit"
    view,            \* the last View output
    parseErr,        \* result of ParseStruct: "none" (not called), "nil" or an error
    nkeys,           \* key events delivered so far
    pc               \* position of the caller / host loop

vars == <<structObj, decl, record, record0, fieldList, asBlacklist,
          customSettings, m, receiver, err, msg, cmd, view, parseErr, nkeys,
          pc>>

(***************************************************************************)
(* Bounds                                                                  *)
(***************************************************************************)
MaxKeys == 5      \* key events delivered to one menu
MaxStrLen == 2    \* characters a string value may grow to

(***************************************************************************)
(* Go values                                                               *)
(***************************************************************************)
MaxInt == 2147483647
MinInt == -MaxInt - 1

\* A Go value with its dynamic type T; S, N or B holds it according to T.
GoString(s) == [T |-> "string", S |-> s, N |-> 0, B |-> FALSE]
GoBool(b)   == [T |-> "bool", S |-> <<>>, N |-> 0, B |-> b]
GoInt(n)    == [T |-> "int", S |-> <<>>, N |-> n, B |-> FALSE]
GoNumber(k, n) == [T |-> k, S |-> <<>>, N |-> n, B |-> FALSE]

IntKinds == {"int", "int8", "int16", "int32", "int64"}

\* strconv.Itoa: decimal digits, most significant first, "-" in front of a
\* negative number.
DigitChar == <<"0", "1", "2", "3", "4", "5", "6", "7", "8", "9">>

RECURSIVE NegDigits(_)
NegDigits(n) ==   \* digits of -n for n <= 0, without overflow at MinInt
    LET q == (n + 9) \div 10
        r == q * 10 - n
    IN  IF q = 0 THEN <<DigitChar[r + 1]>>
        ELSE Append(NegDigits(q), DigitChar[r + 1])

Itoa(n) == IF n >= 0 THEN NegDigits(-n) ELSE <<"-">> \o NegDigits(n)

DigitValue(c) == CHOOSE d \in 0..9 : DigitChar[d + 1] = c

IsDigit(c) == \E d \in 0..9 : DigitChar[d + 1] = c

\* strconv.Atoi: [val, err]. A syntax error gives 0; a value out of range
\* gives the nearest representable int together with the range error.
RECURSIVE AtoiAcc(_, _, _)
AtoiAcc(s, neg, acc) ==   \* acc <= 0 holds the negated magnitude read so far
    IF s = <<>> THEN
        IF neg THEN [val |-> acc, err |-> "nil"]
        ELSE IF acc = MinInt THEN [val |-> MaxInt, err |-> "range"]
        ELSE [val |-> -acc, err |-> "nil"]
    ELSE IF ~IsDigit(Head(s)) THEN [val |-> 0, err |-> "syntax"]
    ELSE LET d == DigitValue(Head(s))
         IN  IF acc < (MinInt + d + 9) \div 10
             THEN [val |-> IF neg THEN MinInt ELSE MaxInt, err |-> "range"]
             ELSE AtoiAcc(Tail(s), neg, acc * 10 - d)

Atoi(s) ==
    IF s = <<>> THEN [val |-> 0, err |-> "syntax"]
    ELSE IF Head(s) \in {"-", "+"} THEN
        IF Tail(s) = <<>> THEN [val |-> 0, err |-> "syntax"]
        ELSE AtoiAcc(Tail(s), Head(s) = "-", 0)
    ELSE AtoiAcc(s, FALSE, 0)

\* reflect.Value.SetInt on a field of kind k: the int64 is truncated to the
\* field's width.
SetIntTruncate(k, n) ==
    IF k = "int8" THEN LET w == n % 256 IN IF w >= 128 THEN w - 256 ELSE w
    ELSE IF k = "int16" THEN LET w == n % 65536 IN IF w >= 32768 THEN w - 65536 ELSE w
    ELSE n

(***************************************************************************)
(* The structs the caller may pass (type and initial contents)             *)
(***************************************************************************)
Field(n, k, e, sn, sd) ==
    [name |-> n, kind |-> k, exported |-> e, smname |-> sn, smdes |-> sd]

\* the example's applicationForm, one field of each kind kept
applicationForm ==
    << Field("FirstName", "string", TRUE, "First Name", ""),
       Field("PhoneNo", "int", TRUE, "Phone", ""),
       Field("CanTravel", "bool", TRUE, "Travel", "Can you travel for work?") >>

\* a struct with integer fields that are not of type int
Sized ==
    << Field("Count", "int8", TRUE, "", ""),
       Field("Label", "string", TRUE, "", ""),
       Field("Size", "int16", TRUE, "", "") >>

\* a struct with nothing to expose: an unexported and an unsupported field
Opaque ==
    << Field("secret", "string", FALSE, "", ""),
       Field("Ratio", "float64", TRUE, "", "") >>

\* a struct with a single int
Counter == << Field("Value", "int", TRUE, "", "") >>

Structs ==
    { [decl |-> applicationForm, record |-> r] :
        r \in { << GoString(<<>>), GoInt(-42), GoBool(TRUE) >> } }
    \cup
    { [decl |-> Sized, record |-> r] :
        r \in { << GoNumber("int8", 5), GoString(<<>>), GoNumber("int16", 7) >> } }
    \cup
    { [decl |-> Opaque, record |-> r] :
        r \in { << GoString(<<"x">>), GoNumber("float64", 1) >> } }
    \cup
    { [decl |-> Counter, record |-> << GoInt(n) >>] :
        n \in {MaxInt, MinInt} }

\* the (fieldList, asBlacklist) arguments the caller may pass
Filters ==
    { [list |-> <<>>, black |-> FALSE],
      [list |-> <<"PhoneNo", "Label", "secret">>, black |-> FALSE],
      [list |-> <<"PhoneNo", "Label", "secret">>, black |-> TRUE] }

\* MenuSettings.Init
DefaultSettings ==
    [NavCursorChar |-> "> ", EditCursorChar |-> ">>", IBeamChar |-> "|",
     TabAfterEntry |-> TRUE, Header |-> ""]

\* the zero MenuSettings
ZeroSettings ==
    [NavCursorChar |-> "", EditCursorChar |-> "", IBeamChar |-> "",
     TabAfterEntry |-> FALSE, Header |-> ""]

\* what the caller may pass as customSettings: nil, or settings initialised
\* with Init and then overridden as example/main.go does
CustomSettings ==
    { [isNil |-> TRUE, settings |-> ZeroSettings],
      [isNil |-> FALSE,
       settings |-> [DefaultSettings EXCEPT !.Header = "Apply for this job: ",
                                            !.TabAfterEntry = FALSE]] }

\* nothing rendered yet
NoView == [header |-> "", rows |-> <<>>, footer |-> ""]

\* the zero TModelStructMenu
ZeroModel ==
    [menuFields |-> <<>>, cursor |-> 0, isEditingValue |-> FALSE,
     QuitWithCancel |-> FALSE, Settings |-> ZeroSettings]

(***************************************************************************)
(* InitialTModelStructMenu                                                 *)
(***************************************************************************)
Contains(list, name) == \E i \in 1..Len(list) : list[i] = name

\* the filter with the list taken as a whitelist whatever asBlacklist says
FilteredAsWhitelist(list, black, name) ==
    Len(list) # 0 /\ ~Contains(list, name)

\* lines 137-147: TRUE when the filter makes the loop skip the field
Filtered(list, black, name) ==
    /\ Len(list) # 0
    /\ IF black THEN Contains(list, name) ELSE ~Contains(list, name)

\* line 155
SupportedKind(k) == k = "string" \/ k = "bool" \/ k \in IntKinds

\* lines 134-163: the loop over the struct's fields, from field i on
RECURSIVE ExposeFrom(_, _, _, _, _)
ExposeFrom(d, r, list, black, i) ==
    IF i > Len(d) THEN <<>>
    ELSE LET rest == ExposeFrom(d, r, list, black, i + 1)
         IN  IF Filtered(list, black, d[i].name) THEN rest
             ELSE IF ~d[i].exported THEN rest
             ELSE IF SupportedKind(d[i].kind)
                  THEN << [value |-> r[i], name |-> d[i].name,
                           smName |-> d[i].smname, smDes |-> d[i].smdes] >> \o rest
                  ELSE rest

\* the pair (TModelStructMenu, error) the function returns
NewMenu(obj, d, r, list, black, custom) ==
    IF obj # "ptrStruct" /\ obj # "ptrNonStruct"
    THEN [model |-> ZeroModel, err |-> "structObj should be a pointer to struct"]
    ELSE IF obj # "ptrStruct"
    THEN [model |-> ZeroModel, err |-> "nil"]
    ELSE LET fields == ExposeFrom(d, r, list, black, 1)
         IN  IF Len(fields) = 0
             THEN [model |-> ZeroModel, err |-> "No fields to expose"]
             ELSE [model |-> [menuFields |-> fields, cursor |-> 0,
                              isEditingValue |-> FALSE, QuitWithCancel |-> FALSE,
                              Settings |-> IF ~custom.isNil THEN custom.settings
                                           ELSE DefaultSettings],
                   err |-> "nil"]

\* The caller passes a struct by value, a pointer to something that is no
\* struct (no fields), or a pointer to one of Structs.
Init ==
    /\ structObj \in {"value", "ptrNonStruct", "ptrStruct"}
    /\ \E s \in Structs :
          /\ decl = IF structObj = "ptrNonStruct" THEN <<>> ELSE s.decl
          /\ record = IF structObj = "ptrNonStruct" THEN <<>> ELSE s.record
          /\ structObj = "value" => s.decl = Opaque
    /\ record0 = record
    /\ \E f \in Filters :
          /\ fieldList = f.list
          /\ asBlacklist = f.black
    /\ customSettings \in CustomSettings
    /\ m = ZeroModel
    /\ receiver = ZeroModel
    /\ err = "nil"
    /\ msg = "none"
    /\ cmd = "nil"
    /\ view = NoView
    /\ parseErr = "none"
    /\ nkeys = 0
    /\ pc = "init"

\* example/main.go lines 42-45: build the menu; log.Fatal on an error
InitialTModelStructMenu ==
    /\ pc = "init"
    /\ LET res == NewMenu(structObj, decl, record, fieldList, asBlacklist,
                          customSettings)
       IN  /\ m' = res.model
           /\ err' = res.err
           /\ pc' = IF res.err # "nil" THEN "failed" ELSE "built"
    /\ UNCHANGED <<structObj, decl, record, record0, fieldList, asBlacklist,
                   customSettings, receiver, msg, cmd, view, parseErr, nkeys>>

\* example/main.go lines 49-50, menu.go lines 224-227: tea.NewProgram(m).Run()
\* calls m.Init, which asks for no command, and renders the model
Run ==
    /\ pc = "built"
    /\ pc' = "view"
    /\ UNCHANGED <<structObj, decl, record, record0, fieldList, asBlacklist,
                   customSettings, m, receiver, err, msg, cmd, view, parseErr,
                   nkeys>>

(***************************************************************************)
(* Key events                                                              *)
(***************************************************************************)
Digits == {"0", "1", "2", "4"}

\* keys whose tea.KeyMsg.String() is a name rather than the typed character
NamedKeys ==
    {"enter", "backspace", "up", "down", "left", "right", "tab", "shift+tab",
     "ctrl+c", "esc"}

\* printable character keys
RuneKeys == Digits \cup {"k", "j", "s", "q", "t", "f", "l", "h", "-", "A"}

Keys == NamedKeys \cup RuneKeys

\* messages the host delivers to Update: key events and, as any message that
\* is no tea.KeyMsg, the window size
Msgs == Keys \cup {"WindowSizeMsg"}

\* tea.KeyMsg.String() as a Go string
MsgString(key) ==
    CASE key = "enter"     -> <<"e", "n", "t", "e", "r">>
      [] key = "backspace" -> <<"b", "a", "c", "k", "s", "p", "a", "c", "e">>
      [] key = "up"        -> <<"u", "p">>
      [] key = "down"      -> <<"d", "o", "w", "n">>
      [] key = "left"      -> <<"l", "e", "f", "t">>
      [] key = "right"     -> <<"r", "i", "g", "h", "t">>
      [] key = "tab"       -> <<"t", "a", "b">>
      [] key = "shift+tab" -> <<"s", "h", "i", "f", "t", "+", "t", "a", "b">>
      [] key = "ctrl+c"    -> <<"c", "t", "r", "l", "+", "c">>
      [] key = "esc"       -> <<"e", "s", "c">>
      [] OTHER             -> <<key>>

(***************************************************************************)
(* TModelStructMenu helpers                                                *)
(***************************************************************************)
\* incrCursor moves the cursor towards index 0
incrCursor(mm) ==
    IF mm.cursor > 0 THEN [mm EXCEPT !.cursor = mm.cursor - 1] ELSE mm

\* decrCursor without its test against the last index
decrCursorUnchecked(mm) == [mm EXCEPT !.cursor = mm.cursor + 1]

\* decrCursor moves the cursor towards the last index
decrCursor(mm) ==
    IF mm.cursor < Len(mm.menuFields) - 1
    THEN [mm EXCEPT !.cursor = mm.cursor + 1] ELSE mm

\* m.menuFields[i] for a Go index i: out of range is a runtime panic
InRange(mm, i) == 0 <= i /\ i < Len(mm.menuFields)

getFieldAtIndex(mm, i) == mm.menuFields[i + 1]

getFieldValueAtIndex(mm, i) == getFieldAtIndex(mm, i).value

\* setFieldValueAtIndex writing to the first field whatever the index
setFieldValueAtFirst(mm, i, value) ==
    [mm EXCEPT !.menuFields[1].value = value]

setFieldValueAtIndex(mm, i, value) ==
    [mm EXCEPT !.menuFields[i + 1].value = value]

getCursorFieldValue(mm) == getFieldValueAtIndex(mm, mm.cursor)

setCursorFieldValue(mm, value) == setFieldValueAtIndex(mm, mm.cursor, value)

\* Go's int addition wraps around
WrapAdd(n, d) ==
    IF d = 1 /\ n = MaxInt THEN MinInt
    ELSE IF d = -1 /\ n = MinInt THEN MaxInt
    ELSE n + d

(***************************************************************************)
(* Update                                                                  *)
(***************************************************************************)
Result(mm, c) == [model |-> mm, cmd |-> c, panic |-> FALSE]

Panic(mm) == [model |-> mm, cmd |-> "nil", panic |-> TRUE]

\* lines 240-271: backspace, in either mode
UpdateBackspace(mm) ==
    IF ~InRange(mm, mm.cursor) THEN Panic(mm)
    ELSE LET cur == getCursorFieldValue(mm)
         IN  IF cur.T = "string" THEN
                 IF Len(cur.S) > 0
                 THEN Result(setCursorFieldValue(mm,
                          GoString(SubSeq(cur.S, 1, Len(cur.S) - 1))), "nil")
                 ELSE Result(mm, "nil")
             ELSE IF cur.T = "int" THEN
                 IF cur.N # 0 THEN
                     LET intSign == IF cur.N < 0 THEN -1 ELSE 1
                         stringVal == Itoa(cur.N)
                         newVal == IF intSign = 1
                                   THEN SubSeq(stringVal, 1, Len(stringVal) - 1)
                                   ELSE SubSeq(stringVal, 2, Len(stringVal) - 1)
                         conv == Atoi(newVal)
                     IN  IF Len(newVal) = 0
                         THEN Result(setCursorFieldValue(mm, GoInt(0)), "nil")
                         ELSE IF conv.err # "nil" THEN Result(mm, "nil")
                         ELSE Result(setCursorFieldValue(mm,
                                  GoInt(conv.val * intSign)), "nil")
                 ELSE Result(mm, "nil")
             ELSE Result(mm, "nil")

\* lines 275-285: a key while editing a bool
EditBool(mm, key) ==
    IF key \in {"t", "1"} THEN setCursorFieldValue(mm, GoBool(TRUE))
    ELSE IF key \in {"f", "0"} THEN setCursorFieldValue(mm, GoBool(FALSE))
    ELSE IF key \in {"right", "left"}
    THEN setCursorFieldValue(mm, GoBool(~getCursorFieldValue(mm).B))
    ELSE setCursorFieldValue(mm, GoBool(FALSE))

\* lines 287-288: a key while editing a string
EditString(mm, key) ==
    setCursorFieldValue(mm, GoString(getCursorFieldValue(mm).S \o MsgString(key)))

\* the int editor storing what Atoi returns for text that is no number, 0,
\* when the digits typed leave the range
EditIntZeroOutOfRange(mm, key) ==
    LET cur == getCursorFieldValue(mm)
    IN  IF key \in {"right", "l"}
        THEN setCursorFieldValue(mm, GoInt(WrapAdd(cur.N, 1)))
        ELSE IF key \in {"left", "h"}
        THEN setCursorFieldValue(mm, GoInt(WrapAdd(cur.N, -1)))
        ELSE IF key \in {"0", "1", "2", "3", "4", "5", "6", "7", "8", "9"} THEN
            LET conv == Atoi(Itoa(cur.N) \o MsgString(key))
            IN  IF cur.N = 0 THEN setCursorFieldValue(mm, GoInt(Atoi(MsgString(key)).val))
                ELSE setCursorFieldValue(mm,
                         GoInt(IF conv.err = "nil" THEN conv.val ELSE 0))
        ELSE mm

\* lines 289-315: a key while editing an int
EditInt(mm, key) ==
    LET cur == getCursorFieldValue(mm)
    IN  IF key \in {"right", "l"}
        THEN setCursorFieldValue(mm, GoInt(WrapAdd(cur.N, 1)))
        ELSE IF key \in {"left", "h"}
        THEN setCursorFieldValue(mm, GoInt(WrapAdd(cur.N, -1)))
        ELSE IF key \in {"0", "1", "2", "3", "4", "5", "6", "7", "8", "9"} THEN
            IF cur.N = 0 THEN
                LET conv == Atoi(MsgString(key))
                IN  IF conv.err # "nil" THEN mm
                    ELSE setCursorFieldValue(mm, GoInt(conv.val))
            ELSE setCursorFieldValue(mm,
                     GoInt(Atoi(Itoa(cur.N) \o MsgString(key)).val))
        ELSE mm

\* lines 273-316: a key other than enter and backspace while editing
UpdateEditing(mm, key) ==
    IF ~InRange(mm, mm.cursor) THEN Panic(mm)
    ELSE LET cur == getCursorFieldValue(mm)
         IN  IF cur.T = "bool" THEN Result(EditBool(mm, key), "nil")
             ELSE IF cur.T = "string" THEN Result(EditString(mm, key), "nil")
             ELSE IF cur.T = "int" THEN Result(EditInt(mm, key), "nil")
             ELSE Result(mm, "nil")

\* lines 317-346: a key other than enter and backspace while navigating
UpdateNavigating(mm, key) ==
    IF key = "s" THEN Result(mm, "Quit")
    ELSE IF key \in {"ctrl+c", "q"}
    THEN Result([mm EXCEPT !.QuitWithCancel = TRUE], "Quit")
    ELSE IF key \in {"up", "k", "shift+tab"} THEN Result(incrCursor(mm), "nil")
    ELSE IF key \in {"down", "j", "tab"} THEN Result(decrCursor(mm), "nil")
    ELSE IF key \in {"0", "1", "2", "3", "4", "5", "6", "7", "8", "9"} THEN
        IF ~InRange(mm, mm.cursor) THEN Panic(mm)
        ELSE Result(setCursorFieldValue(mm, GoInt(Atoi(MsgString(key)).val)), "nil")
    ELSE Result(mm, "nil")

\* enter that advances the cursor on either toggle
UpdateEnterAlwaysAdvancing(mm) ==
    LET toggled == [mm EXCEPT !.isEditingValue = ~mm.isEditingValue]
    IN  IF toggled.Settings.TabAfterEntry
        THEN Result(decrCursor(toggled), "nil")
        ELSE Result(toggled, "nil")

\* lines 234-239: enter toggles the edit mode
UpdateEnter(mm) ==
    LET toggled == [mm EXCEPT !.isEditingValue = ~mm.isEditingValue]
    IN  IF toggled.Settings.TabAfterEntry /\ ~toggled.isEditingValue
        THEN Result(decrCursor(toggled), "nil")
        ELSE Result(toggled, "nil")

\* Update without the test of isEditingValue
UpdateResultIgnoringMode(mm, message) ==
    IF message \notin Keys THEN Result(mm, "nil")
    ELSE IF MsgString(message) = <<"e", "n", "t", "e", "r">> THEN UpdateEnter(mm)
    ELSE IF message = "backspace" THEN UpdateBackspace(mm)
    ELSE UpdateNavigating(mm, message)

\* lines 229-353: the model and command Update returns for a message
UpdateResult(mm, message) ==
    IF message \notin Keys THEN Result(mm, "nil")
    ELSE IF MsgString(message) = <<"e", "n", "t", "e", "r">> THEN UpdateEnter(mm)
    ELSE IF message = "backspace" THEN UpdateBackspace(mm)
    ELSE IF mm.isEditingValue THEN UpdateEditing(mm, message)
    ELSE UpdateNavigating(mm, message)

\* line 229 with lines 90-92: Update has a value receiver, so it works on a
\* copy of the model it is called on. The copy has its own cursor and flags,
\* but its menuFields is the same slice: what setFieldValueAtIndex stores in
\* menuFields[i] of the copy is read through the model of the caller too.
ReceiverAfterCall(mm, returned) ==
    [mm EXCEPT !.menuFields = returned.menuFields]

\* Update with menu fields that alias the struct's fields: every value set
\* in the menu is set in the struct at once
UpdateThroughPointers ==
    /\ pc = "update"
    /\ nkeys < MaxKeys
    /\ \E message \in Msgs :
          LET res == UpdateResult(m, message)
          IN  /\ \A i \in 1..Len(res.model.menuFields) :
                     Len(res.model.menuFields[i].value.S) <= MaxStrLen
              /\ msg' = message
              /\ m' = res.model
              /\ receiver' = ReceiverAfterCall(m, res.model)
              /\ cmd' = res.cmd
              /\ pc' = IF res.panic THEN "panic" ELSE "view"
              /\ record' =
                     [i \in DOMAIN record |->
                        LET js == { j \in 1..Len(res.model.menuFields) :
                                      res.model.menuFields[j].name = decl[i].name }
                        IN  IF js = {} THEN record[i]
                            ELSE res.model.menuFields[CHOOSE j \in js : TRUE].value]
    /\ nkeys' = nkeys + 1
    /\ UNCHANGED <<structObj, decl, record0, fieldList, asBlacklist,
                   customSettings, err, view, parseErr>>

\* the host loop delivers one message; the model Update returns replaces the
\* one the loop holds, and the loop renders it next
Update ==
    /\ pc = "update"
    /\ nkeys < MaxKeys
    /\ \E message \in Msgs :
          LET res == UpdateResult(m, message)
          IN  /\ \A i \in 1..Len(res.model.menuFields) :
                     Len(res.model.menuFields[i].value.S) <= MaxStrLen
              /\ msg' = message
              /\ m' = res.model
              /\ receiver' = ReceiverAfterCall(m, res.model)
              /\ cmd' = res.cmd
              /\ pc' = IF res.panic THEN "panic" ELSE "view"
    /\ nkeys' = nkeys + 1
    /\ UNCHANGED <<structObj, decl, record, record0, fieldList, asBlacklist,
                   customSettings, err, view, parseErr>>

(***************************************************************************)
(* View                                                                    *)
(***************************************************************************)
\* getFieldName
getFieldName(f) == IF f.smName # "" THEN f.smName ELSE f.name

\* lines 397-409: the text of a field's value
ValueText(mm, i) ==
    LET val == getFieldValueAtIndex(mm, i)
    IN  IF val.T = "string" THEN
            IF mm.isEditingValue /\ mm.cursor = i THEN Append(val.S, "|")
            ELSE val.S
        ELSE IF val.T = "bool" THEN
            IF val.B THEN <<"t", "r", "u", "e">> ELSE <<"f", "a", "l", "s", "e">>
        ELSE IF val.T = "int" THEN Itoa(val.N)
        ELSE <<>>

\* lines 384-413: one row per field (the padding of the names is left out)
Row(mm, i) ==
    [cursor |-> IF mm.cursor = i
                THEN IF mm.isEditingValue THEN mm.Settings.EditCursorChar
                     ELSE mm.Settings.NavCursorChar
                ELSE "  ",
     name |-> getFieldName(getFieldAtIndex(mm, i)),
     value |-> ValueText(mm, i)]

\* lines 355-426: the rendered menu
ViewResult(mm) ==
    [header |-> mm.Settings.Header,
     rows |-> [i \in 1..Len(mm.menuFields) |-> Row(mm, i - 1)],
     footer |-> getFieldAtIndex(mm, mm.cursor).smDes]

\* the host loop renders the model it holds; after a Quit command the loop
\* ends and Run returns the model
View ==
    /\ pc = "view"
    /\ IF ~InRange(m, m.cursor)
       THEN /\ pc' = "panic"
            /\ view' = view
       ELSE /\ view' = ViewResult(m)
            /\ pc' = IF cmd = "Quit" THEN "quit" ELSE "update"
    /\ msg' = "none"
    /\ receiver' = ZeroModel
    /\ UNCHANGED <<structObj, decl, record, record0, fieldList, asBlacklist,
                   customSettings, m, err, cmd, parseErr, nkeys>>

(***************************************************************************)
(* ParseStruct                                                             *)
(***************************************************************************)
\* reflect.Value.FieldByName: the index of the field, 0 when there is none
FieldByName(d, name) ==
    IF \E i \in 1..Len(d) : d[i].name = name
    THEN CHOOSE i \in 1..Len(d) : d[i].name = name
    ELSE 0

\* the loop going on to the next field after a type mismatch and returning
\* the error at the end
RECURSIVE ParseFromContinuing(_, _, _, _)
ParseFromContinuing(fields, d, r, i) ==
    IF i > Len(fields) THEN [record |-> r, err |-> "nil"]
    ELSE LET newValue == fields[i].value
             f == FieldByName(d, fields[i].name)
             skip == ParseFromContinuing(fields, d, r, i + 1)
         IN  IF f = 0 THEN skip
             ELSE IF ~d[f].exported THEN skip
             ELSE IF d[f].kind \in IntKinds THEN
                 IF newValue.T = "int"
                 THEN ParseFromContinuing(fields, d,
                          [r EXCEPT ![f] = GoNumber(d[f].kind,
                                               SetIntTruncate(d[f].kind, newValue.N))],
                          i + 1)
                 ELSE [record |-> skip.record, err |-> "type mismatch"]
             ELSE IF d[f].kind = "bool" THEN
                 IF newValue.T = "bool"
                 THEN ParseFromContinuing(fields, d,
                          [r EXCEPT ![f] = GoBool(newValue.B)], i + 1)
                 ELSE IF newValue.T = "int"
                 THEN ParseFromContinuing(fields, d,
                          [r EXCEPT ![f] = GoBool(newValue.N # 0)], i + 1)
                 ELSE IF newValue.T = "string"
                 THEN ParseFromContinuing(fields, d,
                          [r EXCEPT ![f] = GoBool(newValue.S # <<"f">>)], i + 1)
                 ELSE skip
             ELSE IF d[f].kind = "string" THEN
                 IF newValue.T = "string"
                 THEN ParseFromContinuing(fields, d,
                          [r EXCEPT ![f] = GoString(newValue.S)], i + 1)
                 ELSE skip
             ELSE skip

\* lines 179-220: the loop over the menu fields from field i on; r is the
\* struct as written so far
RECURSIVE ParseFrom(_, _, _, _)
ParseFrom(fields, d, r, i) ==
    IF i > Len(fields) THEN [record |-> r, err |-> "nil"]
    ELSE LET newValue == fields[i].value
             f == FieldByName(d, fields[i].name)
         IN  IF f = 0 THEN ParseFrom(fields, d, r, i + 1)
             ELSE IF ~d[f].exported THEN ParseFrom(fields, d, r, i + 1)
             ELSE IF d[f].kind \in IntKinds THEN
                 IF newValue.T = "int"
                 THEN ParseFrom(fields, d,
                          [r EXCEPT ![f] = GoNumber(d[f].kind,
                                               SetIntTruncate(d[f].kind, newValue.N))],
                          i + 1)
                 ELSE [record |-> r, err |-> "type mismatch"]
             ELSE IF d[f].kind = "bool" THEN
                 IF newValue.T = "bool"
                 THEN ParseFrom(fields, d, [r EXCEPT ![f] = GoBool(newValue.B)], i + 1)
                 ELSE IF newValue.T = "int"
                 THEN ParseFrom(fields, d, [r EXCEPT ![f] = GoBool(newValue.N # 0)], i + 1)
                 ELSE IF newValue.T = "string"
                 THEN ParseFrom(fields, d,
                          [r EXCEPT ![f] = GoBool(newValue.S # <<"f">>)], i + 1)
                 ELSE ParseFrom(fields, d, r, i + 1)
             ELSE IF d[f].kind = "string" THEN
                 IF newValue.T = "string"
                 THEN ParseFrom(fields, d, [r EXCEPT ![f] = GoString(newValue.S)], i + 1)
                 ELSE ParseFrom(fields, d, r, i + 1)
             ELSE ParseFrom(fields, d, r, i + 1)

\* lines 172-222: the struct after the call, and the error returned
ParseResult(mm, obj, d, r) ==
    IF obj # "ptrStruct"
    THEN [record |-> r, err |-> "expected a pointer to a struct"]
    ELSE ParseFrom(mm.menuFields, d, r, 1)

\* example/main.go lines 53-55: the user cancelled, nothing is written
CancelExit ==
    /\ pc = "quit"
    /\ m.QuitWithCancel
    /\ pc' = "cancelled"
    /\ UNCHANGED <<structObj, decl, record, record0, fieldList, asBlacklist,
                   customSettings, m, receiver, err, msg, cmd, view, parseErr,
                   nkeys>>

\* The caller writes the menu it holds back into the same struct: the menu
\* Run returned (example/main.go lines 57-60), or the one just built.
ParseStruct ==
    /\ \/ pc = "quit" /\ ~m.QuitWithCancel
       \/ pc = "built"
    /\ LET res == ParseResult(m, structObj, decl, record)
       IN  /\ record' = res.record
           /\ parseErr' = res.err
    /\ pc' = "saved"
    /\ UNCHANGED <<structObj, decl, record0, fieldList, asBlacklist,
                   customSettings, m, receiver, err, msg, cmd, view, nkeys>>

Next ==
    \/ InitialTModelStructMenu
    \/ Run
    \/ Update
    \/ View
    \/ CancelExit
    \/ ParseStruct

Spec == Init /\ [][Next]_vars

(***************************************************************************)
(* Properties                                                              *)
(***************************************************************************)
NumFields == Len(m.menuFields)

\* the step is Update handling a message (msg' names it)
UpdateStep == pc = "update" /\ pc' \in {"view", "panic"}

\* the struct field a menu field was taken from
Source(f) == FieldByName(decl, f.name)

\* At pc = "view" after an Update, `view` is still the rendering of the model
\* Update was called on: the index of the row that showed the cursor then.
RenderedCursorAt(i) ==
    /\ i + 1 \in DOMAIN view.rows
    /\ view.rows[i + 1].cursor # "  "

Min(a, b) == IF a < b THEN a ELSE b

\* C1: with n >= 1 fields the cursor index stays in [0, n-1]; up, k or
\* shift+tab at index 0 leaves the cursor at 0; down, j or tab, and a
\* committing enter with TabAfterEntry, at index n-1 leaves it at n-1.
C1_CursorStep ==
    UpdateStep /\ NumFields >= 1 =>
        /\ msg' \in {"up", "k", "shift+tab"} /\ m.cursor = 0 => m'.cursor = 0
        /\ msg' \in {"down", "j", "tab"} /\ m.cursor = NumFields - 1
              => m'.cursor = NumFields - 1
        /\ msg' = "enter" /\ m.isEditingValue /\ m.Settings.TabAfterEntry
              /\ m.cursor = NumFields - 1
              => m'.cursor = NumFields - 1

C1_CursorInRange ==
    /\ [](NumFields >= 1 => m.cursor \in 0..(NumFields - 1))
    /\ [][C1_CursorStep]_vars

\* a down key arrived with the cursor on the last of several fields
C1_Witness ==
    /\ pc = "view"
    /\ msg \in {"down", "j", "tab"}
    /\ NumFields >= 2
    /\ RenderedCursorAt(NumFields - 1)
    /\ view.rows[NumFields].cursor = m.Settings.NavCursorChar
    /\ m.cursor = NumFields - 1

\* C2: after any keys, in either mode, every field's value still has the
\* type it had at extraction, the kind of the struct field it came from.
C2_TypesKept ==
    \A i \in 1..NumFields :
        LET f == m.menuFields[i]
        IN  Source(f) # 0 => f.value.T = decl[Source(f)].kind

\* C3: a struct with only string, bool and integer fields, written back
\* right after the menu was built (no key in between): ParseStruct returns
\* no error and every field of the struct equals its original value.
C3_RoundTrip ==
    /\ pc = "saved"
    /\ nkeys = 0
    /\ \A i \in 1..Len(decl) : SupportedKind(decl[i].kind)
    => /\ parseErr = "nil"
       /\ record = record0

\* C4: a menu returned together with a nil error has at least one field.
C4_NilErrorHasFields ==
    pc # "init" /\ err = "nil" => NumFields >= 1

\* C5: from a menu returned with a nil error, no key sequence makes Update
\* or View reach a fatal runtime error.
C5_NoFatalError == pc # "panic"

\* C6: Update asks to quit only while navigating: s quits with
\* QuitWithCancel false, q and ctrl+c quit with QuitWithCancel true; while
\* editing no key quits or sets QuitWithCancel; QuitWithCancel is true only
\* after a q or ctrl+c handled while navigating.
C6_QuitStep ==
    UpdateStep =>
        /\ cmd' = "Quit" => ~m.isEditingValue /\ msg' \in {"s", "q", "ctrl+c"}
        /\ ~m.isEditingValue /\ msg' = "s"
              => cmd' = "Quit" /\ ~m'.QuitWithCancel
        /\ ~m.isEditingValue /\ msg' \in {"q", "ctrl+c"}
              => cmd' = "Quit" /\ m'.QuitWithCancel
        /\ m.isEditingValue
              => cmd' = "nil" /\ m'.QuitWithCancel = m.QuitWithCancel
        /\ m'.QuitWithCancel /\ ~m.QuitWithCancel
              => ~m.isEditingValue /\ msg' \in {"q", "ctrl+c"}

C6_QuitOnlyNavigating ==
    /\ [][C6_QuitStep]_vars
    /\ [](m.QuitWithCancel =>
             cmd = "Quit" /\ (pc = "view" => msg \in {"q", "ctrl+c"}))

\* q arrived while navigating, after some editing
C6_Witness ==
    /\ pc = "view"
    /\ msg \in {"q", "ctrl+c"}
    /\ cmd = "Quit"
    /\ m.QuitWithCancel
    /\ \E i \in 1..NumFields : m.menuFields[i].value # record[Source(m.menuFields[i])]

\* C7: the caller's struct is changed by ParseStruct alone: building the
\* menu, Update and View leave it as it was, so on the cancel path it equals
\* its value before the menu was built.
C7_RecordStep == record' # record => pc \in {"quit", "built"} /\ pc' = "saved"

C7_OnlyParseStructWrites ==
    /\ [][C7_RecordStep]_vars
    /\ [](pc # "saved" => record = record0)

\* the user edited a value and cancelled
C7_Witness ==
    /\ pc = "cancelled"
    /\ record = record0
    /\ \E i \in 1..NumFields : m.menuFields[i].value # record[Source(m.menuFields[i])]

\* the names of the fields a call exposes; a failed call exposes none
ExposedNames(list, black) ==
    LET res == NewMenu(structObj, decl, record, list, black, customSettings)
    IN  IF res.err # "nil" THEN {}
        ELSE { res.model.menuFields[i].name : i \in 1..Len(res.model.menuFields) }

\* the non-empty filter lists tried: one or two names, declared or not
TestNames == { decl[i].name : i \in 1..Len(decl) } \cup {"Nope"}

TestLists ==
    { <<a>> : a \in TestNames } \cup { <<a, b>> : a, b \in TestNames }

\* C8: for a non-empty list L, the fields exposed with L as whitelist and
\* with L as blacklist are disjoint, and together they are the fields
\* exposed with an empty list.
C8_FilterComplement ==
    pc \in {"built", "failed"} =>
        \A L \in TestLists :
            /\ ExposedNames(L, FALSE) \cap ExposedNames(L, TRUE) = {}
            /\ ExposedNames(L, FALSE) \cup ExposedNames(L, TRUE)
                   = ExposedNames(<<>>, FALSE)

\* a menu built with a blacklist that hides some fields and shows others
C8_Witness ==
    /\ pc = "built"
    /\ fieldList # <<>>
    /\ asBlacklist
    /\ ExposedNames(fieldList, TRUE) # {}
    /\ ExposedNames(fieldList, FALSE) # {}

\* C9 (the typing): while a String field is edited a printable character
\* key appends that character, and enter leaves the value as typed.
C9_TypingStep ==
    /\ UpdateStep
    /\ m.isEditingValue
    /\ getCursorFieldValue(m).T = "string"
    => /\ msg' \in RuneKeys =>
            getCursorFieldValue(m').S = Append(getCursorFieldValue(m).S, msg')
       /\ msg' = "enter" => m'.menuFields = m.menuFields

C9_Typing == [][C9_TypingStep]_vars

\* C9: a String field that was empty and was given a value by enter,
\* printable character keys, enter: ParseStruct then writes that string into
\* the struct's field.
C9_TypedStringSaved ==
    pc = "saved" =>
        \A i \in 1..NumFields :
            LET f == m.menuFields[i]
            IN  /\ f.value.T = "string"
                /\ f.value.S # <<>>
                /\ record0[Source(f)] = GoString(<<>>)
                => record[Source(f)] = f.value

\* C10: enter while navigating starts editing the field under the cursor
\* and does not move the cursor; enter while editing returns to navigating
\* and moves the cursor as down does (one further, at most to the last
\* index) when TabAfterEntry is set, and not at all otherwise.
C10_EnterStep ==
    UpdateStep /\ msg' = "enter" =>
        /\ ~m.isEditingValue => m'.isEditingValue /\ m'.cursor = m.cursor
        /\ m.isEditingValue =>
              /\ ~m'.isEditingValue
              /\ m'.cursor = IF m.Settings.TabAfterEntry
                             THEN Min(m.cursor + 1, NumFields - 1)
                             ELSE m.cursor

C10_Enter == [][C10_EnterStep]_vars

\* enter committed an edit and the cursor went on to the next field
C10_Witness ==
    /\ pc = "view"
    /\ msg = "enter"
    /\ ~m.isEditingValue
    /\ m.Settings.TabAfterEntry
    /\ m.cursor >= 1
    /\ RenderedCursorAt(m.cursor - 1)
    /\ view.rows[m.cursor].cursor = m.Settings.EditCursorChar

\* the model after Update has handled the keys one after the other
RECURSIVE ApplyKeys(_, _)
ApplyKeys(mm, keys) ==
    IF keys = <<>> THEN mm
    ELSE ApplyKeys(UpdateResult(mm, Head(keys)).model, Tail(keys))

\* the value of the field now under the cursor, once the keys are handled
ValueAfter(keys) == getFieldValueAtIndex(ApplyKeys(m, keys), m.cursor)

\* one or two digit keys, and the number they spell
DigitSeqs == { <<a>> : a \in Digits } \cup { <<a, b>> : a, b \in Digits }

RECURSIVE Number(_)
Number(ds) ==
    IF ds = <<>> THEN 0
    ELSE Number(SubSeq(ds, 1, Len(ds) - 1)) * 10 + DigitValue(ds[Len(ds)])

\* C11: on an Integer field (holding 0 when editing starts) enter, "-",
\* digits d1..dn, enter commits -(d1..dn); a "-" typed after a digit is not
\* accepted; enter, enter commits 0.
C11_NegativeEntry ==
    /\ pc = "update"
    /\ ~m.isEditingValue
    /\ getCursorFieldValue(m) = GoInt(0)
    => /\ \A ds \in DigitSeqs :
            /\ ValueAfter(<<"enter", "-">> \o ds \o <<"enter">>) = GoInt(-Number(ds))
            /\ ValueAfter(<<"enter">> \o ds \o <<"-">>) = ValueAfter(<<"enter">> \o ds)
       /\ ValueAfter(<<"enter", "enter">>) = GoInt(0)

\* C11 (what holds): "-" is no key of the int editor, so the digits typed
\* after it give the positive number.
C11_MinusIgnored ==
    /\ pc = "update"
    /\ ~m.isEditingValue
    /\ getCursorFieldValue(m) = GoInt(0)
    => \A ds \in DigitSeqs :
          ValueAfter(<<"enter", "-">> \o ds \o <<"enter">>) = GoInt(Number(ds))

\* the declared kind of the struct field behind the menu field under the cursor
CursorKind(mm) == decl[Source(getFieldAtIndex(mm, mm.cursor))].kind

\* n / 10 truncated toward zero
Quot10(n) == IF n >= 0 THEN n \div 10 ELSE (n + 9) \div 10

\* C12: backspace on an Integer field holding v leaves v / 10 truncated
\* toward zero (sign kept, a single digit gives 0, 0 stays 0), for every v
\* from the minimum to the maximum.
C12_BackspaceStep ==
    /\ UpdateStep
    /\ msg' = "backspace"
    /\ InRange(m, m.cursor)
    /\ CursorKind(m) \in IntKinds
    => getCursorFieldValue(m').N = Quot10(getCursorFieldValue(m).N)

C12_Backspace == [][C12_BackspaceStep]_vars

\* C12 (what holds): the same, for a value whose Go type is int.
C12_BackspaceIntStep ==
    /\ UpdateStep
    /\ msg' = "backspace"
    /\ InRange(m, m.cursor)
    /\ getCursorFieldValue(m).T = "int"
    => getCursorFieldValue(m') = GoInt(Quot10(getCursorFieldValue(m).N))

C12_BackspaceInt == [][C12_BackspaceIntStep]_vars

\* appending digit key d to the decimal text of v leaves the range of int
OutOfRange(v, d) ==
    \/ v > 0 /\ v > (MaxInt - DigitValue(d)) \div 10
    \/ v < 0 /\ v < (MinInt + DigitValue(d) + 9) \div 10

\* C13: while an Integer field is edited, a digit that takes the value out
\* of the range of int leaves it as it was or at the maximum (the minimum for
\* a negative value); it never wraps, and the result is a function of the
\* state and the key.
C13_OverflowStep ==
    /\ UpdateStep
    /\ m.isEditingValue
    /\ InRange(m, m.cursor)
    /\ CursorKind(m) \in IntKinds
    /\ msg' \in Digits
    /\ OutOfRange(getCursorFieldValue(m).N, msg')
    => /\ getCursorFieldValue(m') \in
              { getCursorFieldValue(m),
                GoInt(IF getCursorFieldValue(m).N > 0 THEN MaxInt ELSE MinInt) }
       /\ m' = UpdateResult(m, msg').model

C13_Overflow == [][C13_OverflowStep]_vars

\* a digit typed after one below the maximum (one above the minimum) was
\* reached: the value went to the bound
C13_Witness ==
    /\ pc = "view"
    /\ msg \in Digits
    /\ m.isEditingValue
    /\ InRange(m, m.cursor)
    /\ RenderedCursorAt(m.cursor)
    /\ \/ /\ view.rows[m.cursor + 1].value = Itoa(MaxInt - 1)
          /\ getCursorFieldValue(m) = GoInt(MaxInt)
       \/ /\ view.rows[m.cursor + 1].value = Itoa(MinInt + 1)
          /\ getCursorFieldValue(m) = GoInt(MinInt)

\* what C14 says of a key handled while the value v is edited
BoolKeyRule(v, key, new) ==
    /\ key \in {"t", "1"} => new = GoBool(TRUE)
    /\ key \in {"f", "0"} => new = GoBool(FALSE)
    /\ key \in {"left", "right"} => new = GoBool(~v.B)

\* C14: while a Boolean field is edited, t and 1 set it to true, f and 0 to
\* false, left and right negate it, so two rights (or lefts) in a row give
\* the original value back.
C14_EditBoolStep ==
    /\ UpdateStep
    /\ m.isEditingValue
    /\ InRange(m, m.cursor)
    /\ CursorKind(m) = "bool"
    => /\ BoolKeyRule(getCursorFieldValue(m), msg', getCursorFieldValue(m'))
       /\ \A key \in {"left", "right"} :
              ValueAfter(<<key, key>>) = getCursorFieldValue(m)

C14_EditBool == [][C14_EditBoolStep]_vars

\* C14 (what holds): the same, while the value under the cursor is a bool.
C14_EditBoolValueStep ==
    /\ UpdateStep
    /\ m.isEditingValue
    /\ InRange(m, m.cursor)
    /\ getCursorFieldValue(m).T = "bool"
    => /\ BoolKeyRule(getCursorFieldValue(m), msg', getCursorFieldValue(m'))
       /\ \A key \in {"left", "right"} :
              ValueAfter(<<key, key>>) = getCursorFieldValue(m)

C14_EditBoolValue == [][C14_EditBoolValueStep]_vars

\* C15: while navigating, the only key that changes a value is a digit on an
\* Integer field, which sets that field to the digit; every other key
\* (backspace, a digit on a String or Boolean field, ...) changes no value.
C15_NavigatingStep ==
    /\ UpdateStep
    /\ ~m.isEditingValue
    /\ InRange(m, m.cursor)
    => IF msg' \in Digits /\ CursorKind(m) \in IntKinds
       THEN /\ getCursorFieldValue(m').N = DigitValue(msg')
            /\ \A i \in 1..NumFields :
                   i # m.cursor + 1 => m'.menuFields[i] = m.menuFields[i]
       ELSE m'.menuFields = m.menuFields

C15_Navigating == [][C15_NavigatingStep]_vars

\* String, Boolean or Integer: the kind a Go type name stands for
KindClass(k) == IF k \in IntKinds THEN "Integer" ELSE k

\* the menu fields ParseStruct finds in the struct as a String or Integer field
StrictFields ==
    { i \in 1..NumFields :
        /\ Source(m.menuFields[i]) # 0
        /\ decl[Source(m.menuFields[i])].exported
        /\ KindClass(decl[Source(m.menuFields[i])].kind) \in {"string", "Integer"} }

\* the value of menu field i is not of the kind of its destination
Mismatched(i) ==
    KindClass(m.menuFields[i].value.T)
        # KindClass(decl[Source(m.menuFields[i])].kind)

\* C16: ParseStruct returns the type mismatch error whenever the value of a
\* descriptor is not of the type of its String or Integer destination; it
\* never skips such a field and returns nil, so after a nil return every
\* String and Integer descriptor's value is in the struct.
C16_MismatchReported ==
    pc = "saved" /\ structObj = "ptrStruct" =>
        /\ (\E i \in StrictFields : Mismatched(i)) => parseErr = "type mismatch"
        /\ parseErr = "nil" =>
              \A i \in StrictFields :
                  LET dst == record[Source(m.menuFields[i])]
                      val == m.menuFields[i].value
                  IN  /\ KindClass(dst.T) = KindClass(val.T)
                      /\ dst.S = val.S
                      /\ dst.N = val.N

\* the struct field menu field i is written to, and that field after a write
Dest(i) == Source(m.menuFields[i])

WrittenValue(i) ==
    LET val == m.menuFields[i].value
        kind == decl[Dest(i)].kind
    IN  [T |-> kind, S |-> val.S, N |-> SetIntTruncate(kind, val.N), B |-> val.B]

\* the menu fields whose destination exists, can be set and is of the kind
\* of the value
Matching ==
    { i \in 1..NumFields :
        /\ Dest(i) # 0
        /\ decl[Dest(i)].exported
        /\ KindClass(m.menuFields[i].value.T) = KindClass(decl[Dest(i)].kind) }

\* C17: a write error on one descriptor does not stop the others: every
\* descriptor whose destination exists, can be set and matches the type of
\* its value is written, also those after a descriptor that failed with a
\* type mismatch.
C17_AllMatchingWritten ==
    pc = "saved" /\ structObj = "ptrStruct" =>
        \A i \in Matching : record[Dest(i)] = WrittenValue(i)

\* the menu fields at which ParseStruct returns the type mismatch error
Failing ==
    { i \in 1..NumFields :
        /\ Dest(i) # 0
        /\ decl[Dest(i)].exported
        /\ decl[Dest(i)].kind \in IntKinds
        /\ m.menuFields[i].value.T # "int" }

FirstFailing ==
    IF Failing = {} THEN NumFields + 1
    ELSE CHOOSE i \in Failing : \A j \in Failing : i <= j

\* C17 (amended): ParseStruct stops at the first descriptor that fails with
\* a type mismatch and returns that error: the matching descriptors before
\* it are written, no descriptor from it on is written; when none fails,
\* every matching descriptor is written and nil is returned.
C17_StopsAtFirstMismatch ==
    pc = "saved" /\ structObj = "ptrStruct" =>
        /\ parseErr = IF Failing = {} THEN "nil" ELSE "type mismatch"
        /\ \A i \in Matching :
               i < FirstFailing => record[Dest(i)] = WrittenValue(i)
        /\ \A i \in 1..NumFields :
               i >= FirstFailing => record[Dest(i)] = record0[Dest(i)]

\* ParseStruct failed at the first field and a string typed into a later
\* field was not written
C17_Witness ==
    /\ pc = "saved"
    /\ parseErr = "type mismatch"
    /\ \E i \in Matching :
          /\ i > FirstFailing
          /\ m.menuFields[i].value.T = "string"
          /\ record[Dest(i)] # WrittenValue(i)

\* ParseStruct wrote a changed first field and failed at a later one
C17_WrittenBeforeFailure ==
    /\ pc = "saved"
    /\ parseErr = "type mismatch"
    /\ \E i \in Matching :
          /\ i < FirstFailing
          /\ record[Dest(i)] = WrittenValue(i)
          /\ record[Dest(i)] # record0[Dest(i)]

\* C18: while a String or Integer field is edited, a key the edit rules do
\* not list for its kind leaves the value as it is: on a String field the
\* named keys (up, down, left, right, tab, esc, ctrl+c, ...) and backspace on
\* an empty value; on an Integer field every key but a digit, "-", backspace
\* and enter (so also left, right, h and l).
C18_UnlistedKeyStep ==
    /\ UpdateStep
    /\ m.isEditingValue
    /\ InRange(m, m.cursor)
    /\ msg' \in Keys
    => /\ /\ KindClass(CursorKind(m)) = "string"
          /\ \/ msg' \in NamedKeys \ {"enter", "backspace"}
             \/ msg' = "backspace" /\ getCursorFieldValue(m).S = <<>>
          => getCursorFieldValue(m') = getCursorFieldValue(m)
       /\ /\ KindClass(CursorKind(m)) = "Integer"
          /\ msg' \notin Digits \cup {"-", "backspace", "enter"}
          => getCursorFieldValue(m') = getCursorFieldValue(m)

C18_UnlistedKey == [][C18_UnlistedKeyStep]_vars

\* C19: a key leaves the number and order of the fields and every field's
\* name, display name and description as they are, and changes the value of
\* no field but the one under the cursor when the key is handled; the fields
\* are the struct's exposed fields in the order of their declaration.
C19_FrameStep ==
    UpdateStep =>
        /\ Len(m'.menuFields) = NumFields
        /\ \A i \in 1..NumFields :
               /\ m'.menuFields[i].name = m.menuFields[i].name
               /\ m'.menuFields[i].smName = m.menuFields[i].smName
               /\ m'.menuFields[i].smDes = m.menuFields[i].smDes
               /\ i # m.cursor + 1 => m'.menuFields[i].value = m.menuFields[i].value

C19_DeclarationOrder ==
    pc \notin {"init", "failed"} /\ structObj = "ptrStruct" =>
        /\ \A i \in 1..NumFields :
               /\ Source(m.menuFields[i]) # 0
               /\ m.menuFields[i].smName = decl[Source(m.menuFields[i])].smname
               /\ m.menuFields[i].smDes = decl[Source(m.menuFields[i])].smdes
        /\ \A i, j \in 1..NumFields :
               i < j => Source(m.menuFields[i]) < Source(m.menuFields[j])
        /\ { Source(m.menuFields[i]) : i \in 1..NumFields }
               = { k \in 1..Len(decl) :
                     /\ decl[k].exported
                     /\ SupportedKind(decl[k].kind)
                     /\ ~Filtered(fieldList, asBlacklist, decl[k].name) }

C19_Frame ==
    /\ [][C19_FrameStep]_vars
    /\ []C19_DeclarationOrder

\* a key changed the value of the field under the cursor, which is not the
\* first of the fields
C19_Witness ==
    /\ pc = "view"
    /\ msg \in Keys
    /\ NumFields >= 2
    /\ m.cursor >= 1
    /\ RenderedCursorAt(m.cursor)
    /\ view.rows[m.cursor + 1].value # ValueText(m, m.cursor)
    /\ \A i \in 1..NumFields :
           i # m.cursor + 1 => view.rows[i].value = ValueText(m, i - 1)

\* the keys C20 calls "other": not enter, backspace, t, 1, f, 0, left, right
OtherBoolKeys ==
    Keys \ {"enter", "backspace", "t", "1", "f", "0", "left", "right"}

\* C20: while a Boolean field is edited, every other key sets the value to
\* false whatever it was, and backspace leaves the value as it is.
C20_FallbackStep ==
    /\ UpdateStep
    /\ m.isEditingValue
    /\ InRange(m, m.cursor)
    /\ CursorKind(m) = "bool"
    => /\ msg' \in OtherBoolKeys => getCursorFieldValue(m') = GoBool(FALSE)
       /\ msg' = "backspace" => getCursorFieldValue(m') = getCursorFieldValue(m)

C20_Fallback == [][C20_FallbackStep]_vars

\* C20 (what holds): the same, while the value under the cursor is a bool.
C20_FallbackValueStep ==
    /\ UpdateStep
    /\ m.isEditingValue
    /\ InRange(m, m.cursor)
    /\ getCursorFieldValue(m).T = "bool"
    => /\ msg' \in OtherBoolKeys => getCursorFieldValue(m') = GoBool(FALSE)
       /\ msg' = "backspace" => getCursorFieldValue(m') = getCursorFieldValue(m)

C20_FallbackValue == [][C20_FallbackValueStep]_vars

\* C21: Update does not change the model it was called on: after
\* m2 = m1.Update(key) the cursor, the edit flag, the cancel flag and every
\* field value read through m1 are what they were before the call, for every
\* key and every reachable m1.
C21_ReceiverStep == UpdateStep => receiver' = m

C21_ReceiverUnchanged == [][C21_ReceiverStep]_vars

\* C21 (what holds): the cursor and the two flags of the model Update was
\* called on, and the names of its fields, are as before the call.
C21_ReceiverScalarsStep ==
    UpdateStep =>
        /\ receiver'.cursor = m.cursor
        /\ receiver'.isEditingValue = m.isEditingValue
        /\ receiver'.QuitWithCancel = m.QuitWithCancel
        /\ receiver'.Settings = m.Settings
        /\ Len(receiver'.menuFields) = NumFields
        /\ \A i \in 1..NumFields :
               receiver'.menuFields[i].name = m.menuFields[i].name

C21_ReceiverScalars == [][C21_ReceiverScalarsStep]_vars

====
